---- MODULE Spec2Model ----
(***************************************************************************)
(* State-machine model of scripts/call_gemini.py: the pull-request review  *)
(* script.  One run fetches a unified diff, parses it line by line into    *)
(* per-file change records with old/new line numbers, asks the review      *)
(* service for a review of every file that has records, and then posts one *)
(* comment per collected review.                                           *)
(*                                                                         *)
(* Text is modelled as a sequence of one-character strings so that the     *)
(* prefix tests, the replace/strip of the file marker and the hunk-header  *)
(* regular expression are computed, not assumed.                           *)
(***************************************************************************)
EXTENDS Integers, Sequences, FiniteSets, TLC

(* ------------------------------------------------------------------ *)
(* Bounds of the model                                                 *)
(* ------------------------------------------------------------------ *)

\* longest diff (in lines) drawn from the full line pool
MaxLines == 3

\* longest diff (in lines) drawn from the core line pool
MaxCoreLines == 5

\* longest diff (in lines) fed to the whole pipeline
MaxPipeLines == 5
MaxHeaderLines == 4

(* ------------------------------------------------------------------ *)
(* Text helpers (Python str methods used by the script)                *)
(* ------------------------------------------------------------------ *)

\* Python None where the code stores it in a line-number field
None == -1

\* Python None as the value of current_file
NoFile == <<"None">>

WhiteSpace == {" ", "\t"}

DigitChars == {"0", "1", "2", "3", "4", "5", "6", "7", "8", "9"}

DigitVal == "0" :> 0 @@ "1" :> 1 @@ "2" :> 2 @@ "3" :> 3 @@ "4" :> 4 @@
            "5" :> 5 @@ "6" :> 6 @@ "7" :> 7 @@ "8" :> 8 @@ "9" :> 9

\* s[k], or the empty string past the end of s
At(s, k) == IF k >= 1 /\ k <= Len(s) THEN s[k] ELSE ""

\* str.startswith
StartsWith(s, p) == Len(s) >= Len(p) /\ SubSeq(s, 1, Len(p)) = p

\* str.replace(p, ""): every non-overlapping occurrence of p, left to right
RECURSIVE RemoveAll(_, _)
RemoveAll(s, p) ==
    IF Len(s) < Len(p) THEN s
    ELSE IF SubSeq(s, 1, Len(p)) = p
         THEN RemoveAll(SubSeq(s, Len(p) + 1, Len(s)), p)
         ELSE <<s[1]>> \o RemoveAll(Tail(s), p)

RECURSIVE LStrip(_)
LStrip(s) == IF s # <<>> /\ s[1] \in WhiteSpace THEN LStrip(Tail(s)) ELSE s

RECURSIVE RStrip(_)
RStrip(s) ==
    IF s # <<>> /\ s[Len(s)] \in WhiteSpace
    THEN RStrip(SubSeq(s, 1, Len(s) - 1))
    ELSE s

\* str.strip
Strip(s) == RStrip(LStrip(s))

\* length of the run of digits of s that starts at position k
RECURSIVE DigitRun(_, _)
DigitRun(s, k) == IF At(s, k) \in DigitChars THEN 1 + DigitRun(s, k + 1) ELSE 0

\* int() of the n digits of s that start at position k
RECURSIVE IntOf(_, _, _)
IntOf(s, k, n) ==
    IF n = 0 THEN 0 ELSE IntOf(s, k, n - 1) * 10 + DigitVal[s[k + n - 1]]

\* every value counts as a current file
TruthyAlways(f) == TRUE

\* Python truthiness of current_file: None and "" are false
Truthy(f) == f # NoFile /\ f # <<>>

\* all sequences over S of length at most n
SeqsUpTo(S, n) == UNION {[1..k -> S] : k \in 0..n}

(* ------------------------------------------------------------------ *)
(* Lines of a diff                                                     *)
(* ------------------------------------------------------------------ *)

FileMarker == <<"+", "+", "+", " ", "b", "/">>
HunkPrefix == <<"@", "@">>
TriplePlus == <<"+", "+", "+">>
TripleMinus == <<"-", "-", "-">>

PathA == <<"a">>
PathB == <<"b">>

\* "+++ b/a" and "+++ b/b"
LineFileA == FileMarker \o PathA
LineFileB == FileMarker \o PathB
\* "+++ b/b\t": git ends a path that holds a space with a tab
LineFileBTab == FileMarker \o PathB \o <<"\t">>
\* "+++ b/": a marker with no path
LineFileEmpty == FileMarker
\* "+++ b/d+++ b/e": the file e in the directory "d+++ b"
PathNested == <<"d">> \o FileMarker \o <<"e">>
LineFileNested == FileMarker \o PathNested

\* "@@ -3,2 +5,3 @@"
LineHunk35 == <<"@", "@", " ", "-", "3", ",", "2", " ", "+", "5", ",", "3", " ", "@", "@">>
\* "@@ -10 +12 @@": the counts are optional
LineHunk1012 == <<"@", "@", " ", "-", "1", "0", " ", "+", "1", "2", " ", "@", "@">>
\* "@@@ -1 -1 +1 @@@": the header of a combined diff, which the pattern rejects
LineHunkBad == <<"@", "@", "@", " ", "-", "1", " ", "-", "1", " ", "+", "1", " ", "@", "@", "@">>

\* "+x", "-y", " z"
LineAdd == <<"+", "x">>
LineDel == <<"-", "y">>
LineCtx == <<" ", "z">>
\* " ": an empty context line; as a whole diff it is blank text
LineBlank == <<" ">>
\* "+++ /dev/null" is shortened to "+++ n"; "--- a/a"
LinePlus3 == <<"+", "+", "+", " ", "n">>
LineMinus3 == <<"-", "-", "-", " ", "a", "/", "a">>

CorePool == {LineFileA, LineFileB, LineHunk35, LineAdd, LineDel, LineCtx}

\* a file with a well-formed and a malformed header
HeaderPool == {LineFileA, LineHunk35, LineHunkBad, LineAdd}

LinePool == CorePool \cup
    {LineFileBTab, LineFileEmpty, LineFileNested, LineHunk1012, LineHunkBad,
     LineBlank, LinePlus3, LineMinus3}

\* the diffs the parser is checked on
DiffInputs ==
    SeqsUpTo(LinePool, MaxLines) \cup SeqsUpTo(CorePool, MaxCoreLines)
        \cup SeqsUpTo(HeaderPool, MaxHeaderLines)

(* ------------------------------------------------------------------ *)
(* hunk_regex = r"@@ -(\d+),?\d* \+(\d+),?\d* @@", applied with match() *)
(* ------------------------------------------------------------------ *)

\* position after an optional "," and a run of digits that start at k
AfterCount(s, k) ==
    LET c == IF At(s, k) = "," THEN k + 1 ELSE k
    IN  c + DigitRun(s, c)

\* the groups are swapped
HunkMatchSwapped(line) ==
    LET n1 == DigitRun(line, 5)
        k1 == AfterCount(line, 5 + n1)
        n2 == DigitRun(line, k1 + 2)
        k2 == AfterCount(line, k1 + 2 + n2)
        ok == /\ Len(line) >= 4 /\ SubSeq(line, 1, 4) = <<"@", "@", " ", "-">>
              /\ n1 >= 1
              /\ At(line, k1) = " " /\ At(line, k1 + 1) = "+"
              /\ n2 >= 1
              /\ At(line, k2) = " " /\ At(line, k2 + 1) = "@" /\ At(line, k2 + 2) = "@"
    IN  IF ok
        THEN [matched |-> TRUE, old |-> IntOf(line, k1 + 2, n2), new |-> IntOf(line, 5, n1)]
        ELSE [matched |-> FALSE, old |-> 0, new |-> 0]

\* every line that starts with "@@" matches; without groups the starts are 1
HunkMatchLoose(line) ==
    IF HunkMatchSwapped(line).matched
    THEN [matched |-> TRUE, old |-> HunkMatchSwapped(line).new,
          new |-> HunkMatchSwapped(line).old]
    ELSE [matched |-> StartsWith(line, HunkPrefix), old |-> 1, new |-> 1]

\* hunk_regex.match(line): whether it matches, int(group(1)), int(group(2))
HunkMatch(line) ==
    LET n1 == DigitRun(line, 5)
        k1 == AfterCount(line, 5 + n1)
        n2 == DigitRun(line, k1 + 2)
        k2 == AfterCount(line, k1 + 2 + n2)
        ok == /\ Len(line) >= 4 /\ SubSeq(line, 1, 4) = <<"@", "@", " ", "-">>
              /\ n1 >= 1
              /\ At(line, k1) = " " /\ At(line, k1 + 1) = "+"
              /\ n2 >= 1
              /\ At(line, k2) = " " /\ At(line, k2 + 1) = "@" /\ At(line, k2 + 2) = "@"
    IN  IF ok
        THEN [matched |-> TRUE, old |-> IntOf(line, 5, n1), new |-> IntOf(line, k1 + 2, n2)]
        ELSE [matched |-> FALSE, old |-> 0, new |-> 0]

(* ------------------------------------------------------------------ *)
(* State                                                               *)
(* ------------------------------------------------------------------ *)

VARIABLES
    pc,              \* position of the script
    diff_status,     \* diff_resp.status_code, None before the request
    raw_diff,        \* raw_diff.splitlines(): the lines of the fetched diff
    line_idx,        \* index of the next line of the parse loop
    pr_diff,         \* the ordered dict, as a sequence of [path, changes]
    current_file,
    old_line_num,
    new_line_num,
    trace,           \* history: what the parse loop did with each line
    file_idx,        \* index of the next item of the review loop
    base_content,
    review_comments,
    comment_idx,     \* index of the next item of the publish loop
    calls,           \* history: the external calls issued, in order
    exit_code,       \* process exit status, None while running
    error            \* name of the uncaught exception, "" if none

vars == <<pc, diff_status, raw_diff, line_idx, pr_diff, current_file, old_line_num,
          new_line_num, trace, file_idx, base_content, review_comments,
          comment_idx, calls, exit_code, error>>

fetchVars == <<raw_diff, diff_status>>
parserVars == <<pr_diff, current_file, old_line_num, new_line_num, trace, line_idx>>
reviewVars == <<file_idx, base_content, review_comments, comment_idx, calls>>

Init ==
    /\ pc = "fetch_diff"
    /\ diff_status = None
    /\ raw_diff = <<>>
    /\ line_idx = 1
    /\ pr_diff = <<>>
    /\ current_file = NoFile
    /\ old_line_num = 0
    /\ new_line_num = 0
    /\ trace = <<>>
    /\ file_idx = 1
    /\ base_content = <<>>
    /\ review_comments = <<>>
    /\ comment_idx = 1
    /\ calls = <<>>
    /\ exit_code = None
    /\ error = ""

(* ------------------------------------------------------------------ *)
(* Fetching the diff                                                   *)
(* ------------------------------------------------------------------ *)

\* the diff request answers 200 with one of the diff texts of inputs
FetchDiffOk(inputs) ==
    /\ pc = "fetch_diff"
    /\ \E d \in inputs : raw_diff' = d
    /\ diff_status' = 200
    /\ pc' = "check_empty"
    /\ UNCHANGED <<parserVars, reviewVars, exit_code, error>>

\* the diff request answers another status: exit(1)
FetchDiffFail ==
    /\ pc = "fetch_diff"
    /\ \E st \in {404, 500} : diff_status' = st
    /\ pc' = "exited"
    /\ exit_code' = 1
    /\ UNCHANGED <<raw_diff, parserVars, reviewVars, error>>

\* no text counts as blank
IsBlankTextNever(lines) == FALSE

\* raw_diff.strip() is empty: no line holds anything but white space
IsBlankText(lines) == \A k \in 1..Len(lines) : Strip(lines[k]) = <<>>

\* "if not raw_diff.strip()": exit(0)
ExitNoDiff ==
    /\ pc = "check_empty"
    /\ IsBlankText(raw_diff)
    /\ pc' = "exited"
    /\ exit_code' = 0
    /\ UNCHANGED <<fetchVars, parserVars, reviewVars, error>>

\* otherwise the parser state is set up and the parse loop starts
StartParse ==
    /\ pc = "check_empty"
    /\ ~IsBlankText(raw_diff)
    /\ pr_diff' = <<>>
    /\ current_file' = NoFile
    /\ old_line_num' = 0
    /\ new_line_num' = 0
    /\ line_idx' = 1
    /\ pc' = "parse"
    /\ UNCHANGED <<fetchVars, trace, reviewVars, exit_code, error>>

(* ------------------------------------------------------------------ *)
(* The parse loop, one action per branch taken for raw_diff[line_idx]  *)
(* ------------------------------------------------------------------ *)

Keys(d) == {d[k].path : k \in 1..Len(d)}

\* d[path]
Lookup(d, path) == (CHOOSE k \in 1..Len(d) : d[k].path = path)

Changes(d, path) == d[Lookup(d, path)].changes

NoRec == [type |-> "none", old_line |-> None, new_line |-> None, content |-> <<>>]

\* the dict appended for a line that starts with "+"
AddedRecord(line, old, new) ==
    [type |-> "added", old_line |-> None, new_line |-> new, content |-> Tail(line)]

\* the dict appended for a line that starts with "-"
DeletedRecord(line, old, new) ==
    [type |-> "deleted", old_line |-> old, new_line |-> None, content |-> Tail(line)]

\* pr_diff[path].append(rec)
AppendChange(d, path, rec) ==
    [k \in 1..Len(d) |->
        IF d[k].path = path
        THEN [d[k] EXCEPT !.changes = Append(@, rec)]
        ELSE d[k]]

\* line.replace("+++ b/", "").strip()
MarkerPath(line) == Strip(RemoveAll(line, FileMarker))

\* the entry is reset when the path is already a key
EnsureKeyOverwrite(d, path) ==
    IF path \in Keys(d)
    THEN [k \in 1..Len(d) |->
            IF d[k].path = path THEN [path |-> path, changes |-> <<>>] ELSE d[k]]
    ELSE Append(d, [path |-> path, changes |-> <<>>])

\* "if current_file not in pr_diff: pr_diff[current_file] = []"
EnsureKey(d, path) ==
    IF path \in Keys(d) THEN d ELSE Append(d, [path |-> path, changes |-> <<>>])

CurLine == raw_diff[line_idx]

InLoop == pc = "parse" /\ line_idx <= Len(raw_diff)

\* what the loop body did with the current line
Step(kind, file, rec) ==
    /\ trace' = Append(trace, [kind |-> kind, file |-> file, old |-> old_line_num,
                               new |-> new_line_num, rec |-> rec])
    /\ line_idx' = line_idx + 1
    /\ UNCHANGED <<pc, fetchVars, reviewVars, exit_code, error>>

\* line 56: the line starts with "+++ b/"
ParseFileMarker ==
    /\ InLoop
    /\ StartsWith(CurLine, FileMarker)
    /\ current_file' = MarkerPath(CurLine)
    /\ pr_diff' = EnsureKey(pr_diff, current_file')
    /\ UNCHANGED <<old_line_num, new_line_num>>
    /\ Step("file", current_file', NoRec)

\* line 60, match: the cursors are set from the header
ParseHunkHeader ==
    /\ InLoop
    /\ ~StartsWith(CurLine, FileMarker)
    /\ Truthy(current_file)
    /\ StartsWith(CurLine, HunkPrefix)
    /\ HunkMatch(CurLine).matched
    /\ old_line_num' = HunkMatch(CurLine).old
    /\ new_line_num' = HunkMatch(CurLine).new
    /\ UNCHANGED <<pr_diff, current_file>>
    /\ Step("hunk", current_file, NoRec)

\* line 60, no match: nothing is updated
ParseBadHunkHeader ==
    /\ InLoop
    /\ ~StartsWith(CurLine, FileMarker)
    /\ Truthy(current_file)
    /\ StartsWith(CurLine, HunkPrefix)
    /\ ~HunkMatch(CurLine).matched
    /\ UNCHANGED <<pr_diff, current_file, old_line_num, new_line_num>>
    /\ Step("badhunk", current_file, NoRec)

\* line 65: a line of the current file that is neither marker nor header
IsContent ==
    /\ InLoop
    /\ ~StartsWith(CurLine, FileMarker)
    /\ Truthy(current_file)
    /\ ~StartsWith(CurLine, HunkPrefix)

IsAddedLine(line) == StartsWith(line, <<"+">>) /\ ~StartsWith(line, TriplePlus)

IsDeletedLine(line) ==
    /\ ~IsAddedLine(line)
    /\ StartsWith(line, <<"-">>) /\ ~StartsWith(line, TripleMinus)

\* line 73: new_line_num += 1
CursorsAfterAdded(old, new) == <<old, new + 1>>

\* the new cursor moves too
CursorsAfterDeletedBoth(old, new) == <<old + 1, new + 1>>

\* line 81: old_line_num += 1
CursorsAfterDeleted(old, new) == <<old + 1, new>>

\* a context line moves no cursor
CursorsAfterContextNone(old, new) == <<old, new>>

\* lines 83-84: both cursors move
CursorsAfterContext(old, new) == <<old + 1, new + 1>>

\* line 66
ParseAdded ==
    /\ IsContent
    /\ IsAddedLine(CurLine)
    /\ LET rec == AddedRecord(CurLine, old_line_num, new_line_num)
       IN  /\ pr_diff' = AppendChange(pr_diff, current_file, rec)
           /\ Step("added", current_file, rec)
    /\ old_line_num' = CursorsAfterAdded(old_line_num, new_line_num)[1]
    /\ new_line_num' = CursorsAfterAdded(old_line_num, new_line_num)[2]
    /\ UNCHANGED current_file

\* line 74
ParseDeleted ==
    /\ IsContent
    /\ IsDeletedLine(CurLine)
    /\ LET rec == DeletedRecord(CurLine, old_line_num, new_line_num)
       IN  /\ pr_diff' = AppendChange(pr_diff, current_file, rec)
           /\ Step("deleted", current_file, rec)
    /\ old_line_num' = CursorsAfterDeleted(old_line_num, new_line_num)[1]
    /\ new_line_num' = CursorsAfterDeleted(old_line_num, new_line_num)[2]
    /\ UNCHANGED current_file

\* line 82
ParseContext ==
    /\ IsContent
    /\ ~IsAddedLine(CurLine)
    /\ ~IsDeletedLine(CurLine)
    /\ old_line_num' = CursorsAfterContext(old_line_num, new_line_num)[1]
    /\ new_line_num' = CursorsAfterContext(old_line_num, new_line_num)[2]
    /\ UNCHANGED <<pr_diff, current_file>>
    /\ Step("context", current_file, NoRec)

\* no branch applies: current_file is None or ""
ParseIgnored ==
    /\ InLoop
    /\ ~StartsWith(CurLine, FileMarker)
    /\ ~Truthy(current_file)
    /\ UNCHANGED <<pr_diff, current_file, old_line_num, new_line_num>>
    /\ Step("ignored", current_file, NoRec)

\* the loop is over: the review loop starts with the first item of pr_diff
ParseDone ==
    /\ pc = "parse"
    /\ line_idx > Len(raw_diff)
    /\ pc' = "review"
    /\ file_idx' = 1
    /\ UNCHANGED <<fetchVars, parserVars, base_content, review_comments,
                   comment_idx, calls, exit_code, error>>

ParseLine ==
    \/ ParseFileMarker
    \/ ParseHunkHeader
    \/ ParseBadHunkHeader
    \/ ParseAdded
    \/ ParseDeleted
    \/ ParseContext
    \/ ParseIgnored

NextParse ==
    \/ FetchDiffOk(DiffInputs)
    \/ FetchDiffFail
    \/ ExitNoDiff
    \/ StartParse
    \/ ParseLine
    \/ ParseDone

\* the run up to the end of the parse loop, on every diff of DiffInputs
SpecParse == Init /\ [][NextParse]_vars

(* ------------------------------------------------------------------ *)
(* The external services: what a request can be answered with          *)
(* ------------------------------------------------------------------ *)

\* dict.get(k, default) on a JSON object modelled as a record
Get(d, k, default) == IF k \in DOMAIN d THEN d[k] ELSE default

\* {} as a JSON object
EmptyDict == <<>>

\* "aGk=" is the base64 text of "hi"
B64Hi == <<"a", "G", "k", "=">>

\* base64.b64decode(...).decode("utf-8") on the contents the model serves
B64Decode(s) == IF s = B64Hi THEN <<"h", "i">> ELSE <<>>

\* answers of the contents request: the file, not found, an object without
\* "content" (what the contents API gives for a submodule)
BaseResponses == {"200", "404", "200_no_content"}

BaseResponse(id) ==
    CASE id = "200" -> [status |-> 200, json |-> [content |-> B64Hi]]
      [] id = "404" -> [status |-> 404, json |-> [message |-> "Not Found"]]
      [] OTHER      -> [status |-> 200, json |-> [type |-> "submodule"]]

FallbackText == "No response from Gemini."

\* answers of the review service: a review, an error object, a candidate
\* without content, an empty candidate list, a body that is not JSON
GeminiResponses == {"ok", "error_json", "no_text", "empty_candidates", "not_json"}

GeminiResponse(id) ==
    CASE id = "ok" ->
            [status |-> 200, is_json |-> TRUE,
             json |-> [candidates |-> <<[content |-> [parts |-> <<[text |-> "LGTM"]>>]]>>]]
      [] id = "error_json" ->
            [status |-> 429, is_json |-> TRUE, json |-> [error |-> "quota"]]
      [] id = "no_text" ->
            [status |-> 200, is_json |-> TRUE,
             json |-> [candidates |-> <<[finishReason |-> "SAFETY"]>>]]
      [] id = "empty_candidates" ->
            [status |-> 200, is_json |-> TRUE, json |-> [candidates |-> <<>>]]
      [] OTHER ->
            [status |-> 502, is_json |-> FALSE, json |-> EmptyDict]

\* answers of the comment request: created, rejected
PostResponses == {201, 403}

\* lines 207-213: resp.json() and the chained get()/[0]; raised names the
\* exception that escapes, "" when none does
AiComment(r) ==
    IF ~r.is_json THEN [raised |-> "JSONDecodeError", text |-> ""]
    ELSE
    LET cands == Get(r.json, "candidates", <<EmptyDict>>)
    IN  IF cands = <<>> THEN [raised |-> "IndexError", text |-> ""]
        ELSE
        LET parts == Get(Get(cands[1], "content", EmptyDict), "parts", <<EmptyDict>>)
        IN  IF parts = <<>> THEN [raised |-> "IndexError", text |-> ""]
            ELSE [raised |-> "", text |-> Get(parts[1], "text", FallbackText)]

(* ------------------------------------------------------------------ *)
(* The review loop: for file_path, changes in pr_diff.items()          *)
(* ------------------------------------------------------------------ *)

NoPrompt == [file_path |-> <<>>, base_content |-> <<>>, diff_lines |-> <<>>]
NoBody == [path |-> <<>>, text |-> ""]

Call(op, path, prompt, body, out) ==
    [op |-> op, path |-> path, prompt |-> prompt, body |-> body, out |-> out]

\* lines 184-187: "+ [L<new_line>] <content>" or "- [L<old_line>] <content>"
DiffLine(c) ==
    IF c.type = "added"
    THEN [sign |-> "+", line |-> c.new_line, content |-> c.content]
    ELSE [sign |-> "-", line |-> c.old_line, content |-> c.content]

\* lines 182-194: the template filled with the path, the base and the changes
Prompt(path, base, changes) ==
    [file_path |-> path, base_content |-> base,
     diff_lines |-> [k \in 1..Len(changes) |-> DiffLine(changes[k])]]

\* line 229: "**Review for file:** `<path>`\n\n<body>"
CommentBody(comment) == [path |-> comment.path, text |-> comment.body]

\* the items are visited from the last to the first
ItemReversed(k) == pr_diff[Len(pr_diff) + 1 - k]

\* line 175: pr_diff.items() gives the items in insertion order
Item(k) == pr_diff[k]

InReview == pc = "review" /\ file_idx <= Len(pr_diff)

\* every item is sent for review, also one without changes
SkipsNothing(changes) == FALSE

\* line 176: "if not changes: continue"
SkipsFile(changes) == changes = <<>>

ReviewSkip ==
    /\ InReview
    /\ SkipsFile(Item(file_idx).changes)
    /\ file_idx' = file_idx + 1
    /\ UNCHANGED <<pc, fetchVars, parserVars, base_content, review_comments,
                   comment_idx, calls, exit_code, error>>

\* the body of a failed request is decoded like a file
BaseContentOfAnyStatus(r) == B64Decode(Get(r.json, "content", B64Hi))

\* lines 90-95: "" for a status other than 200, else the decoded content
BaseContent(r) == IF r.status # 200 THEN <<>> ELSE B64Decode(r.json.content)

\* line 179, get_base_file_content returns: "" for a status other than 200
FetchBase ==
    /\ InReview
    /\ ~SkipsFile(Item(file_idx).changes)
    /\ \E b \in BaseResponses :
          LET r == BaseResponse(b)
          IN  /\ r.status = 200 => "content" \in DOMAIN r.json
              /\ base_content' = BaseContent(r)
              /\ calls' = Append(calls, Call("base", Item(file_idx).path, NoPrompt, NoBody, b))
    /\ pc' = "gemini"
    /\ UNCHANGED <<fetchVars, parserVars, file_idx, review_comments, comment_idx,
                   exit_code, error>>

\* line 94, data["content"] raises KeyError: the run ends with a traceback
FetchBaseRaises ==
    /\ InReview
    /\ ~SkipsFile(Item(file_idx).changes)
    /\ \E b \in BaseResponses :
          LET r == BaseResponse(b)
          IN  /\ r.status = 200 /\ "content" \notin DOMAIN r.json
              /\ calls' = Append(calls, Call("base", Item(file_idx).path, NoPrompt, NoBody, b))
    /\ pc' = "exited"
    /\ exit_code' = 1
    /\ error' = "KeyError"
    /\ UNCHANGED <<fetchVars, parserVars, file_idx, base_content, review_comments,
                   comment_idx>>

GeminiCall(g) ==
    Call("gemini", Item(file_idx).path,
         Prompt(Item(file_idx).path, base_content, Item(file_idx).changes),
         NoBody, g)

\* lines 206-218: the answer gives a text or the fallback, which is collected
CallGemini ==
    /\ pc = "gemini"
    /\ \E g \in GeminiResponses :
          LET a == AiComment(GeminiResponse(g))
          IN  /\ a.raised = ""
              /\ calls' = Append(calls, GeminiCall(g))
              /\ review_comments' =
                    Append(review_comments, [path |-> Item(file_idx).path, body |-> a.text])
    /\ file_idx' = file_idx + 1
    /\ pc' = "review"
    /\ UNCHANGED <<fetchVars, parserVars, base_content, comment_idx, exit_code, error>>

\* lines 207-213 raise: the run ends with a traceback, nothing is collected
CallGeminiRaises ==
    /\ pc = "gemini"
    /\ \E g \in GeminiResponses :
          LET a == AiComment(GeminiResponse(g))
          IN  /\ a.raised # ""
              /\ calls' = Append(calls, GeminiCall(g))
              /\ error' = a.raised
    /\ pc' = "exited"
    /\ exit_code' = 1
    /\ UNCHANGED <<fetchVars, parserVars, file_idx, base_content, review_comments,
                   comment_idx>>

\* the publish loop may start once the first item is done
ReviewLoopOverEarly(k) == k > 1

\* line 175: the items of pr_diff are exhausted
ReviewLoopOver(k) == k > Len(pr_diff)

\* the review loop is over: the publish loop starts
ReviewDone ==
    /\ pc = "review"
    /\ ReviewLoopOver(file_idx)
    /\ pc' = "publish"
    /\ comment_idx' = 1
    /\ UNCHANGED <<fetchVars, parserVars, file_idx, base_content, review_comments,
                   calls, exit_code, error>>

(* ------------------------------------------------------------------ *)
(* The publish loop: for comment in review_comments                    *)
(* ------------------------------------------------------------------ *)

\* a rejected post is tried again
NextCommentRetry(k, status) == IF status = 201 THEN k + 1 ELSE k

\* the loop stops at the first rejected post
NextCommentStopOnReject(k, status) == IF status = 201 THEN k + 1 ELSE Len(review_comments) + 1

\* lines 228-231: the status is printed and the loop goes on
NextComment(k, status) == k + 1

PostComment ==
    /\ pc = "publish"
    /\ comment_idx <= Len(review_comments)
    /\ \E st \in PostResponses :
          /\ calls' = Append(calls, Call("post", review_comments[comment_idx].path, NoPrompt,
                                         CommentBody(review_comments[comment_idx]), st))
          /\ comment_idx' = NextComment(comment_idx, st)
    /\ UNCHANGED <<pc, fetchVars, parserVars, file_idx, base_content, review_comments,
                   exit_code, error>>

\* the script ends
PublishDone ==
    /\ pc = "publish"
    /\ comment_idx > Len(review_comments)
    /\ pc' = "exited"
    /\ exit_code' = 0
    /\ UNCHANGED <<fetchVars, parserVars, reviewVars, error>>

(* ------------------------------------------------------------------ *)
(* The whole run                                                       *)
(* ------------------------------------------------------------------ *)

PipePool == {LineFileA, LineFileB, LineHunk35, LineAdd, LineDel}

\* the diffs the whole run is checked on
PipeInputs == SeqsUpTo(PipePool, MaxPipeLines) \cup SeqsUpTo(LinePool, MaxLines)

Next ==
    \/ FetchDiffOk(PipeInputs)
    \/ FetchDiffFail
    \/ ExitNoDiff
    \/ StartParse
    \/ ParseLine
    \/ ParseDone
    \/ ReviewSkip
    \/ FetchBase
    \/ FetchBaseRaises
    \/ CallGemini
    \/ CallGeminiRaises
    \/ ReviewDone
    \/ PostComment
    \/ PublishDone

Spec == Init /\ [][Next]_vars

(* ------------------------------------------------------------------ *)
(* Properties of the parse loop (checked under SpecParse)              *)
(* ------------------------------------------------------------------ *)

\* what the well-formed headers of the line pool declare: <<oldStart, newStart>>
DeclaredStart(line) ==
    CASE line = LineHunk35   -> <<3, 5>>
      [] line = LineHunk1012 -> <<10, 12>>
      [] OTHER               -> <<None, None>>

IsHeaderLine(line) == DeclaredStart(line) # <<None, None>>

IsMarkerLine(line) == StartsWith(line, FileMarker)

\* a line that consumes an old line number, read off its text
ConsumesOld(line) ==
    /\ ~IsMarkerLine(line)
    /\ ~StartsWith(line, HunkPrefix)
    /\ ~IsAddedLine(line)

\* a line that consumes a new line number, read off its text
ConsumesNew(line) ==
    /\ ~IsMarkerLine(line)
    /\ ~StartsWith(line, HunkPrefix)
    /\ ~IsDeletedLine(line)

\* line j was consumed while a current file was set
FileSetAt(j) == Truthy(trace[j].file)

\* line h is a header parsed for a current file and line j lies in its hunk:
\* no header and no file marker between them
HunkOf(h, j) ==
    /\ h < j
    /\ IsHeaderLine(raw_diff[h])
    /\ FileSetAt(h)
    /\ \A m \in (h + 1)..(j - 1) :
          ~IsMarkerLine(raw_diff[m]) /\ ~IsHeaderLine(raw_diff[m])
    /\ ~IsMarkerLine(raw_diff[j])

\* the record of line j is stored under the file that was current
Stored(j) ==
    /\ trace[j].file \in Keys(pr_diff)
    /\ \E k \in 1..Len(Changes(pr_diff, trace[j].file)) :
          Changes(pr_diff, trace[j].file)[k] = trace[j].rec

\* C1: a hunk header parsed while a current file is set numbers the line that
\* follows it: a deleted line gets old_line = oldStart, an added line gets
\* new_line = newStart
C1_CursorInvariant ==
    \A j \in 1..(Len(trace) - 1) :
        (IsHeaderLine(raw_diff[j]) /\ FileSetAt(j)) =>
            /\ IsDeletedLine(raw_diff[j + 1]) =>
                  /\ trace[j + 1].rec.type = "deleted"
                  /\ trace[j + 1].rec.old_line = DeclaredStart(raw_diff[j])[1]
                  /\ Stored(j + 1)
            /\ IsAddedLine(raw_diff[j + 1]) =>
                  /\ trace[j + 1].rec.type = "added"
                  /\ trace[j + 1].rec.new_line = DeclaredStart(raw_diff[j])[2]
                  /\ Stored(j + 1)

\* a deleted line right after "@@ -3,2 +5,3 @@" was recorded with old_line 3
C1_Witness ==
    \E j \in 1..(Len(trace) - 1) :
        /\ raw_diff[j] = LineHunk35
        /\ FileSetAt(j)
        /\ IsDeletedLine(raw_diff[j + 1])
        /\ trace[j + 1].rec.old_line = 3

\* C2: inside a hunk a Deleted record's old_line is oldStart plus the number
\* of earlier deleted or context lines of the hunk, an Added record's new_line
\* is newStart plus the number of earlier added or context lines of the hunk,
\* and a context line stores no record
C2_LineAddressing ==
    \A j \in 1..Len(trace) : \A h \in 1..Len(trace) :
        HunkOf(h, j) =>
            /\ IsDeletedLine(raw_diff[j]) =>
                  /\ trace[j].rec.type = "deleted"
                  /\ Stored(j)
                  /\ trace[j].rec.old_line = DeclaredStart(raw_diff[h])[1] +
                        Cardinality({m \in (h + 1)..(j - 1) : ConsumesOld(raw_diff[m])})
            /\ IsAddedLine(raw_diff[j]) =>
                  /\ trace[j].rec.type = "added"
                  /\ Stored(j)
                  /\ trace[j].rec.new_line = DeclaredStart(raw_diff[h])[2] +
                        Cardinality({m \in (h + 1)..(j - 1) : ConsumesNew(raw_diff[m])})
            /\ (ConsumesOld(raw_diff[j]) /\ ConsumesNew(raw_diff[j])) =>
                  trace[j].rec = NoRec

\* header -3 +5, then a context, a deleted and an added line: the deleted
\* record has old_line 4 and the added record new_line 6
C2_Witness ==
    \E h \in 1..Len(trace) :
        /\ h + 3 <= Len(trace)
        /\ HunkOf(h, h + 3)
        /\ raw_diff[h] = LineHunk35
        /\ raw_diff[h + 1] = LineCtx
        /\ trace[h + 2].rec.type = "deleted" /\ trace[h + 2].rec.old_line = 4
        /\ trace[h + 3].rec.type = "added" /\ trace[h + 3].rec.new_line = 6

\* lines j < k of one file are consecutive among the lines of that file that
\* satisfy uses
ConsecutiveInFile(j, k, uses(_)) ==
    /\ j < k
    /\ FileSetAt(j) /\ trace[j].file = trace[k].file
    /\ uses(raw_diff[j]) /\ uses(raw_diff[k])
    /\ \A m \in (j + 1)..(k - 1) :
          ~(trace[m].file = trace[j].file /\ uses(raw_diff[m]))

\* no hunk header and no file marker is consumed between lines j and k
SameRun(j, k) ==
    \A m \in (j + 1)..(k - 1) :
        ~IsMarkerLine(raw_diff[m]) /\ ~IsHeaderLine(raw_diff[m])

\* line j lies in a hunk
InHunk(j) == \E h \in 1..Len(trace) : HunkOf(h, j)

\* C3 as stated: within one file's sequence the old number of consecutive
\* deleted-or-context lines and the new number of consecutive added-or-context
\* lines go up by exactly 1 (stated for the lines that lie in a hunk)
C3_MonotonicPerFile ==
    \A j \in 1..Len(trace) : \A k \in 1..Len(trace) :
        (InHunk(j) /\ InHunk(k)) =>
            /\ ConsecutiveInFile(j, k, ConsumesOld) => trace[k].old = trace[j].old + 1
            /\ ConsecutiveInFile(j, k, ConsumesNew) => trace[k].new = trace[j].new + 1

\* C3 amended: the numbers go up by exactly 1 between consecutive lines of one
\* hunk, that is when no hunk header and no file marker lies between them
C3_MonotonicPerHunk ==
    \A j \in 1..Len(trace) : \A k \in 1..Len(trace) :
        /\ (ConsecutiveInFile(j, k, ConsumesOld) /\ SameRun(j, k)) =>
              trace[k].old = trace[j].old + 1
        /\ (ConsecutiveInFile(j, k, ConsumesNew) /\ SameRun(j, k)) =>
              trace[k].new = trace[j].new + 1

\* two deleted lines of one hunk with an added line between them: old_line 3
\* and 4
C3_Witness ==
    \E j \in 1..Len(trace) :
        /\ j + 2 <= Len(trace)
        /\ ConsecutiveInFile(j, j + 2, ConsumesOld)
        /\ SameRun(j, j + 2)
        /\ IsAddedLine(raw_diff[j + 1])
        /\ trace[j].rec.old_line = 3
        /\ trace[j + 2].rec.old_line = 4

\* the path a marker line introduces: the text after "+++ b/", trimmed
IntroducedPath(line) == Strip(SubSeq(line, Len(FileMarker) + 1, Len(line)))

IntroducedPaths ==
    {IntroducedPath(raw_diff[j]) : j \in {m \in 1..Len(trace) : IsMarkerLine(raw_diff[m])}}

\* C10: the keys of the mapping are exactly the paths introduced by the
\* marker lines consumed so far, also those without any record
C10_Completeness == Keys(pr_diff) = IntroducedPaths

\* the same, on diffs in which no path holds the marker text
C10_CompletenessPlainPaths ==
    (\A j \in 1..Len(trace) : raw_diff[j] # LineFileNested) =>
        Keys(pr_diff) = IntroducedPaths

(* ------------------------------------------------------------------ *)
(* Properties of the whole run (checked under Spec)                    *)
(* ------------------------------------------------------------------ *)

CallsOf(op) == SelectSeq(calls, LAMBDA c : c.op = op)

HasChanges(e) == e.changes # <<>>

\* the items of pr_diff that have change records, in the order of pr_diff
FilesWithChanges == SelectSeq(pr_diff, HasChanges)

Called(op, path) == \E k \in 1..Len(calls) : calls[k].op = op /\ calls[k].path = path

\* the answers of the review service that are failures: a status other than
\* 200, or no text where the review is expected
FailingAnswers == {"error_json", "no_text", "empty_candidates", "not_json"}

\* the text a result must carry for an answer of the review service
ExpectedText(g) == IF g = "ok" THEN "LGTM" ELSE FallbackText

\* the run is over and it got past the fetch of a diff that is not blank
RunEnded == pc = "exited" /\ diff_status = 200 /\ ~IsBlankText(raw_diff)

\* C4: when the review-service call of file A fails, A's result carries the
\* fallback text, the call of every other file B with changes is still made,
\* B's result is the text of B's own answer at B's own position, and a comment
\* is posted for both (stated for the runs in which no base fetch raises)
C4_Isolation ==
    (RunEnded /\ error # "KeyError") =>
        \A a \in 1..Len(FilesWithChanges) : \A b \in 1..Len(FilesWithChanges) :
            LET A == FilesWithChanges[a].path
                B == FilesWithChanges[b].path
            IN  (a # b /\ \E k \in 1..Len(calls) :
                            /\ calls[k].op = "gemini" /\ calls[k].path = A
                            /\ calls[k].out \in FailingAnswers) =>
                    /\ a <= Len(review_comments)
                    /\ review_comments[a] = [path |-> A, body |-> FallbackText]
                    /\ b <= Len(review_comments)
                    /\ review_comments[b].path = B
                    /\ \E k \in 1..Len(calls) :
                          /\ calls[k].op = "gemini" /\ calls[k].path = B
                          /\ review_comments[b].body = ExpectedText(calls[k].out)
                    /\ Called("post", A)
                    /\ Called("post", B)

\* the failures that raise at lines 207-213
RaisingAnswers == {"empty_candidates", "not_json"}

\* the same, for the failing answers that are JSON objects whose lists are not
\* empty: these get the fallback text and the run goes on
C4_IsolationOfHandledFailures ==
    (RunEnded /\ error = "") =>
        \A a \in 1..Len(FilesWithChanges) :
            /\ a <= Len(review_comments)
            /\ review_comments[a].path = FilesWithChanges[a].path
            /\ \E k \in 1..Len(calls) :
                  /\ calls[k].op = "gemini"
                  /\ calls[k].path = FilesWithChanges[a].path
                  /\ calls[k].out \notin RaisingAnswers
                  /\ review_comments[a].body = ExpectedText(calls[k].out)
            /\ Called("post", FilesWithChanges[a].path)

\* C5: a run ends early only when the diff request fails, and then with exit
\* status 1 and no call issued; any other run goes through every file with
\* changes (base fetch, review call, comment) and ends with exit status 0
\* (stated for the runs in which no base fetch raises)
C5_PropagationPolicy ==
    (pc = "exited" /\ error # "KeyError") =>
        \/ diff_status # 200 /\ exit_code = 1 /\ calls = <<>>
        \/ /\ diff_status = 200
           /\ exit_code = 0
           /\ error = ""
           /\ IsBlankText(raw_diff) => calls = <<>>
           /\ ~IsBlankText(raw_diff) =>
                 \A a \in 1..Len(FilesWithChanges) :
                     /\ Called("base", FilesWithChanges[a].path)
                     /\ Called("gemini", FilesWithChanges[a].path)
                     /\ Called("post", FilesWithChanges[a].path)

\* the part of C5 about the diff request: its failure ends the run with exit
\* status 1 before anything else is issued
C5_DiffFailureEndsRun ==
    (diff_status \notin {None, 200}) =>
        pc = "exited" /\ exit_code = 1 /\ calls = <<>> /\ pr_diff = <<>>

\* C6: a file whose sequence is empty gets no base fetch, no review call, no
\* result and no comment, and the loop goes on with the next file: every file
\* with changes that the loop has passed got its base fetch, and an uncaught
\* exception comes from a call only
C6_EmptyFilesSkipped ==
    /\ \A k \in 1..Len(calls) :
          /\ calls[k].path \in Keys(pr_diff)
          /\ Changes(pr_diff, calls[k].path) # <<>>
    /\ \A k \in 1..Len(review_comments) :
          /\ review_comments[k].path \in Keys(pr_diff)
          /\ Changes(pr_diff, review_comments[k].path) # <<>>
    /\ pc \in {"review", "gemini", "publish"} =>
          \A f \in 1..Len(pr_diff) :
              (f < file_idx /\ pr_diff[f].changes # <<>>) => Called("base", pr_diff[f].path)
    /\ error # "" => (calls # <<>> /\ calls[Len(calls)].op \in {"base", "gemini"})

\* a file without records precedes a file with records, and the run ended
\* with a comment for the second one only
C6_Witness ==
    /\ RunEnded /\ exit_code = 0
    /\ Len(pr_diff) = 2
    /\ pr_diff[1].changes = <<>>
    /\ pr_diff[2].changes # <<>>
    /\ Len(CallsOf("post")) = 1
    /\ CallsOf("post")[1].path = pr_diff[2].path

\* C7: an empty diff text ends the run at the check of line 45 with exit
\* status 0, an empty mapping, no review call and no comment
C7_EmptyDiff ==
    (diff_status = 200 /\ raw_diff = <<>>) =>
        /\ pc \in {"check_empty", "exited"}
        /\ pc = "exited" => exit_code = 0
        /\ error = ""
        /\ pr_diff = <<>>
        /\ review_comments = <<>>
        /\ calls = <<>>

\* the run on an empty diff has ended
C7_Witness ==
    diff_status = 200 /\ raw_diff = <<>> /\ pc = "exited" /\ exit_code = 0

\* the diff_lines of the prompt are the file's whole change list, in order
FullChangeList(prompt, path) ==
    /\ prompt.file_path = path
    /\ Len(prompt.diff_lines) = Len(Changes(pr_diff, path))
    /\ \A m \in 1..Len(prompt.diff_lines) :
          LET c == Changes(pr_diff, path)[m]
              d == prompt.diff_lines[m]
          IN  /\ d.content = c.content
              /\ c.type = "added" => d.sign = "+" /\ d.line = c.new_line
              /\ c.type = "deleted" => d.sign = "-" /\ d.line = c.old_line

\* C8: a base fetch that is answered 404 does not end the run: the review
\* call of the same file comes next, with an empty base content and the
\* file's whole change list, and the loop then moves past the file
C8_BaseFailureNotFatal ==
    \A k \in 1..Len(calls) :
        (calls[k].op = "base" /\ calls[k].out = "404") =>
            /\ k = Len(calls) =>
                  /\ pc = "gemini"
                  /\ base_content = <<>>
                  /\ exit_code = None
                  /\ Item(file_idx).path = calls[k].path
            /\ k < Len(calls) =>
                  /\ calls[k + 1].op = "gemini"
                  /\ calls[k + 1].path = calls[k].path
                  /\ calls[k + 1].prompt.base_content = <<>>
                  /\ FullChangeList(calls[k + 1].prompt, calls[k].path)
                  /\ calls[k + 1].out \notin RaisingAnswers =>
                        /\ file_idx > Lookup(pr_diff, calls[k].path)
                        /\ \E m \in 1..Len(review_comments) :
                              review_comments[m].path = calls[k].path

\* the base fetch of the first file failed, its review call was made, and the
\* base fetch of the second file was issued after it
C8_Witness ==
    /\ Len(calls) >= 3
    /\ calls[1].op = "base" /\ calls[1].out = "404"
    /\ calls[2].op = "gemini" /\ calls[2].path = calls[1].path
    /\ calls[3].op = "base" /\ calls[3].path # calls[1].path

\* C9: in the publish loop the comments posted so far are the collected
\* results up to the loop index, in collection order, whatever the posts were
\* answered; at the end of the run every collected result has been posted
C9_PublishAll ==
    LET posts == CallsOf("post")
    IN  /\ pc = "publish" => Len(posts) = comment_idx - 1
        /\ Len(posts) <= Len(review_comments)
        /\ \A k \in 1..Len(posts) :
              /\ posts[k].path = review_comments[k].path
              /\ posts[k].body = [path |-> review_comments[k].path,
                                  text |-> review_comments[k].body]
        /\ (pc = "exited" /\ error = "" /\ diff_status = 200) =>
              Len(posts) = Len(review_comments)

\* two results were collected, the first post was rejected and the second
\* result was posted all the same
C9_Witness ==
    LET posts == CallsOf("post")
    IN  /\ pc = "exited"
        /\ Len(review_comments) = 2
        /\ Len(posts) = 2
        /\ posts[1].out = 403
        /\ posts[2].path = review_comments[2].path

(* ------------------------------------------------------------------ *)
(* Further properties of the parse loop (checked under SpecParse)      *)
(* ------------------------------------------------------------------ *)

\* the cursors after line j was consumed
OldAfter(j) == IF j < Len(trace) THEN trace[j + 1].old ELSE old_line_num
NewAfter(j) == IF j < Len(trace) THEN trace[j + 1].new ELSE new_line_num

\* the records stored by the lines consumed for file f, in the order consumed
RECURSIVE RecordsOf(_, _)
RecordsOf(f, n) ==
    IF n = 0 THEN <<>>
    ELSE IF trace[n].file = f /\ trace[n].rec # NoRec
         THEN Append(RecordsOf(f, n - 1), trace[n].rec)
         ELSE RecordsOf(f, n - 1)

\* C12: a "+++ b/<path>" marker removes and alters no record: at any time the
\* sequence of a key is every record stored for it so far, in the order
\* stored, across re-entries; a marker makes its path a key (with an empty
\* sequence when the path is new), stores no record, sets the current file
\* and leaves both cursors as they were
C12_ReentryPreservesData ==
    /\ \A k \in 1..Len(pr_diff) :
          pr_diff[k].changes = RecordsOf(pr_diff[k].path, Len(trace))
    /\ \A j \in 1..Len(trace) :
          IsMarkerLine(raw_diff[j]) =>
              /\ trace[j].file \in Keys(pr_diff)
              /\ trace[j].rec = NoRec
              /\ OldAfter(j) = trace[j].old
              /\ NewAfter(j) = trace[j].new
              /\ j = Len(trace) => current_file = trace[j].file
    /\ Cardinality(Keys(pr_diff)) = Len(pr_diff)

\* file a got a record, file b was entered, file a was entered again and got
\* a second record after the first
C12_Witness ==
    \E i \in 1..Len(trace) : \E j \in 1..Len(trace) : \E k \in 1..Len(trace) :
        /\ i < j /\ j < k /\ k < Len(trace)
        /\ trace[i].file = PathA /\ trace[i].rec # NoRec
        /\ raw_diff[j] = LineFileB
        /\ raw_diff[k] = LineFileA
        /\ trace[Len(trace)].file = PathA /\ trace[Len(trace)].rec # NoRec
        /\ Len(Changes(pr_diff, PathA)) = 2
        /\ Changes(pr_diff, PathA)[1] = trace[i].rec

AllRecords == UNION {{pr_diff[k].changes[m] : m \in 1..Len(pr_diff[k].changes)} :
                     k \in 1..Len(pr_diff)}

\* C13: every stored record is an Added record without old_line and with a
\* positive new_line, or a Deleted record without new_line and with a
\* positive old_line
C13_RecordShape ==
    \A r \in AllRecords :
        \/ r.type = "added" /\ r.old_line = None /\ r.new_line >= 1
        \/ r.type = "deleted" /\ r.new_line = None /\ r.old_line >= 1

\* the same for the records of lines that lie in a hunk; outside a hunk the
\* number is a cursor that no header has set, and may be 0
C13_RecordShapeInHunk ==
    /\ \A r \in AllRecords :
          \/ r.type = "added" /\ r.old_line = None /\ r.new_line >= 0
          \/ r.type = "deleted" /\ r.new_line = None /\ r.old_line >= 0
    /\ \A j \in 1..Len(trace) :
          (InHunk(j) /\ trace[j].rec # NoRec) =>
              \/ trace[j].rec.type = "added" /\ trace[j].rec.new_line >= 1
              \/ trace[j].rec.type = "deleted" /\ trace[j].rec.old_line >= 1

(* ------------------------------------------------------------------ *)
(* Further properties of the whole run (checked under Spec)            *)
(* ------------------------------------------------------------------ *)

\* line j is an added or deleted line consumed for a file with no hunk header
\* before it in the file's section
ChangeWithoutHeader(j) ==
    /\ FileSetAt(j)
    /\ IsAddedLine(raw_diff[j]) \/ IsDeletedLine(raw_diff[j])
    /\ ~InHunk(j)

\* C11: a file whose section has added or deleted lines before any hunk
\* header is skipped: no base fetch, no review call and no comment names it
C11_NoHeaderFilesSkipped ==
    \A j \in 1..Len(trace) :
        ChangeWithoutHeader(j) =>
            \A k \in 1..Len(calls) : calls[k].path # trace[j].file

\* position of a key in the mapping
Rank(path) == Lookup(pr_diff, path)

\* the line whose marker first made path the current file
FirstSeen(path) ==
    CHOOSE j \in 1..Len(trace) :
        /\ IsMarkerLine(raw_diff[j]) /\ trace[j].file = path
        /\ \A m \in 1..(j - 1) : ~(IsMarkerLine(raw_diff[m]) /\ trace[m].file = path)

\* a call op for path was issued before call number m
CalledBefore(op, path, m) ==
    \E k \in 1..(m - 1) : calls[k].op = op /\ calls[k].path = path

\* C14: the keys are in the order in which their paths first appeared, and the
\* files are handled one at a time in that order: calls of one kind are issued
\* in key order, a review call comes right after the base fetch of its own
\* file, a base fetch comes after the base fetch and the review call of every
\* earlier file with changes, and so does a comment after the earlier comments
C14_SequentialOrder ==
    /\ \A p \in 1..Len(pr_diff) : \A q \in 1..Len(pr_diff) :
          p < q => FirstSeen(pr_diff[p].path) < FirstSeen(pr_diff[q].path)
    /\ \A k \in 1..Len(calls) : \A m \in 1..Len(calls) :
          (k < m /\ calls[k].op = calls[m].op) =>
              Rank(calls[k].path) < Rank(calls[m].path)
    /\ \A m \in 1..Len(calls) :
          /\ calls[m].op = "gemini" =>
                m > 1 /\ calls[m - 1].op = "base" /\ calls[m - 1].path = calls[m].path
          /\ \A f \in 1..Len(pr_diff) :
                (pr_diff[f].changes # <<>> /\ f < Rank(calls[m].path)) =>
                    /\ calls[m].op = "base" =>
                          /\ CalledBefore("base", pr_diff[f].path, m)
                          /\ CalledBefore("gemini", pr_diff[f].path, m)
                    /\ calls[m].op = "post" =>
                          CalledBefore("post", pr_diff[f].path, m)

\* a whole run on two files with changes: fetch, review, fetch, review, then
\* the two comments
C14_Witness ==
    /\ Len(pr_diff) = 2
    /\ Len(calls) = 6
    /\ calls[1].op = "base" /\ calls[1].path = pr_diff[1].path
    /\ calls[2].op = "gemini" /\ calls[2].path = pr_diff[1].path
    /\ calls[3].op = "base" /\ calls[3].path = pr_diff[2].path
    /\ calls[4].op = "gemini" /\ calls[4].path = pr_diff[2].path
    /\ calls[5].op = "post" /\ calls[5].path = pr_diff[1].path
    /\ calls[6].op = "post" /\ calls[6].path = pr_diff[2].path

\* number of calls op issued for path
Count(op, path) ==
    Cardinality({k \in 1..Len(calls) : calls[k].op = op /\ calls[k].path = path})

\* C15: for every file at most one base fetch, one review call and one
\* comment post are issued, whatever they are answered; a run that reaches
\* the end has issued exactly one of each for every file with changes
C15_OneCallPerFile ==
    /\ \A f \in 1..Len(pr_diff) : \A op \in {"base", "gemini", "post"} :
          Count(op, pr_diff[f].path) <= 1
    /\ (RunEnded /\ exit_code = 0) =>
          \A f \in 1..Len(pr_diff) : \A op \in {"base", "gemini", "post"} :
              pr_diff[f].changes # <<>> => Count(op, pr_diff[f].path) = 1

\* a run reached the end although a base fetch, a review call and a post
\* failed, and the failed post was the only post of its file
C15_Witness ==
    /\ RunEnded /\ exit_code = 0
    /\ \E k \in 1..Len(calls) : calls[k].op = "base" /\ calls[k].out = "404"
    /\ \E k \in 1..Len(calls) : calls[k].op = "gemini" /\ calls[k].out = "error_json"
    /\ \E k \in 1..Len(calls) :
          /\ calls[k].op = "post" /\ calls[k].out = 403
          /\ Count("post", calls[k].path) = 1

\* C19: no comment is posted before the review call of every file with
\* changes has been made: posts come after all other calls, none exists while
\* the review loop runs, and a run that ends in the review loop has posted
\* nothing, also when results were already collected
C19_TwoPhases ==
    /\ CallsOf("post") # <<>> =>
          \A f \in 1..Len(pr_diff) :
              pr_diff[f].changes # <<>> => Called("gemini", pr_diff[f].path)
    /\ \A k \in 1..Len(calls) : \A m \in 1..Len(calls) :
          (k < m /\ calls[k].op = "post") => calls[m].op = "post"
    /\ pc \in {"review", "gemini"} => CallsOf("post") = <<>>
    /\ (pc = "exited" /\ error # "") => CallsOf("post") = <<>>

\* the run ended at the review call of the second file: the result of the
\* first file was collected and never posted
C19_Witness ==
    /\ pc = "exited"
    /\ error # ""
    /\ Len(review_comments) = 1
    /\ Len(CallsOf("gemini")) = 2
    /\ CallsOf("post") = <<>>

\* no marker is among the lines consumed so far
NoMarkerYet == \A j \in 1..Len(trace) : ~IsMarkerLine(raw_diff[j])

\* C17: while no line that starts with "+++ b/" has been consumed, the mapping
\* is empty, both cursors are 0, no file is current and no line stored a record
C17_BeforeFirstMarker ==
    NoMarkerYet =>
        /\ pr_diff = <<>>
        /\ old_line_num = 0 /\ new_line_num = 0
        /\ current_file = NoFile
        /\ \A j \in 1..Len(trace) : trace[j].rec = NoRec

\* a header, an added line and a deleted line were consumed and no marker
C17_Witness ==
    /\ NoMarkerYet
    /\ Len(trace) = 3
    /\ IsHeaderLine(raw_diff[1])
    /\ IsAddedLine(raw_diff[2])
    /\ IsDeletedLine(raw_diff[3])

\* a line that starts with "@@" and is no well-formed header
IsMalformedHeader(line) == StartsWith(line, HunkPrefix) /\ ~IsHeaderLine(line)

\* C18: the step that consumes a malformed header while a current file is set
\* changes neither cursor, nor the current file, nor the mapping, stores no
\* record, raises nothing and moves on to the next line
C18_MalformedHeaderTolerated ==
    [][(InLoop /\ Truthy(current_file) /\ IsMalformedHeader(CurLine)) =>
          /\ old_line_num' = old_line_num /\ new_line_num' = new_line_num
          /\ current_file' = current_file
          /\ pr_diff' = pr_diff
          /\ trace'[Len(trace')].rec = NoRec
          /\ line_idx' = line_idx + 1
          /\ pc' = "parse" /\ error' = "" /\ exit_code' = exit_code]_vars

\* a malformed header followed a well-formed one: the cursors stayed where the
\* well-formed header put them and the next line was stored with them
C18_Witness ==
    \E j \in 2..(Len(trace) - 1) :
        /\ IsMalformedHeader(raw_diff[j])
        /\ FileSetAt(j)
        /\ IsHeaderLine(raw_diff[j - 1])
        /\ trace[j].new = DeclaredStart(raw_diff[j - 1])[2]
        /\ trace[j + 1].rec # NoRec
        /\ trace[j + 1].rec.new_line = trace[j].new

====
